---- MODULE Spec2Model ----
(***************************************************************************)
(* Model of the synthetic e-commerce data generator (data_generator.py)    *)
(* and of the dashboard that reads its table (app.py).                     *)
(*                                                                         *)
(* Money is held in units of 1/10000 dollar, so that the unrounded         *)
(* products of a 2-decimal price with a whole percentage are integers; a   *)
(* value rounded to 2 decimals is a multiple of 100.  A datetime is a      *)
(* record of day number, hour, minute, second and microsecond.             *)
(***************************************************************************)
EXTENDS Integers, Sequences, FiniteSets, TLC

VARIABLES
    products,                  \* self.products
    customers,                 \* self.customers
    coupons,                   \* self.coupons
    pc,                        \* position in generate_orders
    num_orders,                \* argument of generate_orders
    i,                         \* loop counter of generate_orders
    orders,                    \* local list `orders`
    customer_order_counts,     \* local dict customer_id -> list of datetimes
    customer_last_order_time,  \* local dict customer_id -> datetime
    fraud_data,                \* local dict of the latest iteration
    clock,                     \* latest reading of datetime.now()
    result,                    \* value returned by generate_orders
    call,                      \* arguments of a direct call of a helper method
    ret,                       \* value returned by that call
    csv_file,                  \* the table in the CSV file the dashboard reads
    df,                        \* EcommerceDashboard.df
    original_df,               \* EcommerceDashboard.original_df
    dpc,                       \* position in a run of the dashboard script
    selection,                 \* values of the sidebar widgets in this run
    messages,                  \* st.error / warning / info / success shown in this run
    views                      \* what the tabs rendered in this run

\* The state of the dashboard.
dashVars == <<csv_file, df, original_df, dpc, selection, messages, views>>

vars == <<products, customers, coupons, pc, num_orders, i, orders,
          customer_order_counts, customer_last_order_time, fraud_data,
          clock, result, call, ret, dashVars>>

\* Python's None, as a value comparable with every dict of the model.
None == [None |-> TRUE]

\* Python's None in a place that otherwise holds a str.
NoneStr == "None"

----------------------------------------------------------------------------
\* Bounds of the model.

\* Largest num_orders passed to generate_orders in the general specification.
MaxOrders == 2

\* Largest num_orders in the specification of the customers' order histories.
MaxBurstOrders == 5

----------------------------------------------------------------------------
\* datetime and timedelta

DateTime(d, h, m, s, us) ==
    [day |-> d, hour |-> h, minute |-> m, second |-> s, microsecond |-> us]

\* Whole seconds of a datetime since midnight of day 0.
Seconds(dt) == ((dt.day * 24 + dt.hour) * 60 + dt.minute) * 60 + dt.second

\* dt1 <= dt2
DtLE(dt1, dt2) ==
    \/ Seconds(dt1) < Seconds(dt2)
    \/ Seconds(dt1) = Seconds(dt2) /\ dt1.microsecond <= dt2.microsecond

\* base_date - timedelta(days=days_ago)
MinusDays(dt, days_ago) == [dt EXCEPT !.day = dt.day - days_ago]

\* order_date.replace(hour=h, minute=m, second=s): the microsecond is kept.
Replace(dt, h, m, s) == [dt EXCEPT !.hour = h, !.minute = m, !.second = s]

\* (current - t).total_seconds() / 3600 <= 1
WithinOneHourOf(current_time, t) ==
    LET ds == Seconds(current_time) - Seconds(t)
        dus == current_time.microsecond - t.microsecond
    IN  ds < 3600 \/ (ds = 3600 /\ dus <= 0)

----------------------------------------------------------------------------
\* Rounding

\* n / d rounded to the nearest integer (d > 0); used where no tie arises.
RoundDiv(n, d) == (2 * n + d) \div (2 * d)

\* A value of the loop body is named by <<field, base_cost, unit_price,
\* quantity, coupon_code>>.  round(x, 2) of a float goes by the binary value
\* of x: where the decimal value lies exactly between two cents, the float
\* that stands for it lies below or above the tie.  The two sets list, for
\* every such value over the catalog draws of the model, on which side the
\* IEEE-754 double lies that lines 168-180 compute.
FloatBelowTie ==
    { <<"total_discount", 3333400, 5000100, 2, "VIP25">>,
      <<"final_price",    3333400, 5000100, 2, "VIP25">>,
      <<"total_discount", 3333400, 5000100, 5, "FLASH30">>,
      <<"total_discount", 416600,  499900,  5, "FLASH30">> }

FloatAboveTie ==
    { <<f, 100000, 120500, q, "WELCOME10">> :
          f \in {"total_discount", "final_price", "profit"}, q \in {1, 3, 5} }
    \cup
    { <<f, b[1], b[2], 5, "WELCOME10">> :
          f \in {"total_discount", "final_price", "profit"},
          b \in {<<3333400, 5000100>>, <<416600, 499900>>} }
    \cup
    { <<f, b[1], b[2], 5, "FLASH30">> :
          f \in {"final_price", "profit"},
          b \in {<<3333400, 5000100>>, <<416600, 499900>>} }
    \cup
    { <<"profit", 3333400, 5000100, 2, "VIP25">> }

\* The possible results of round(x, 2) for the value named `value`, whose
\* decimal value is x/10000: the nearest cent; at a tie the side the float
\* lies on, and either neighbour for a value the two sets do not list.
Round2(x, value) ==
    LET lo == (x \div 100) * 100
        r  == x % 100
    IN  IF r < 50 THEN {lo}
        ELSE IF r > 50 THEN {lo + 100}
        ELSE IF value \in FloatBelowTie THEN {lo}
        ELSE IF value \in FloatAboveTie THEN {lo + 100}
        ELSE {lo, lo + 100}

----------------------------------------------------------------------------
\* The reference tables built by __init__

\* The (category, item) pairs in the order the catalog loop visits them.
Categories ==
    << <<"Electronics", "Smartphone">>, <<"Electronics", "Laptop">>,
       <<"Electronics", "Tablet">>, <<"Electronics", "Headphones">>,
       <<"Electronics", "Smartwatch">>, <<"Electronics", "Camera">>,
       <<"Clothing", "T-Shirt">>, <<"Clothing", "Jeans">>,
       <<"Clothing", "Dress">>, <<"Clothing", "Jacket">>,
       <<"Clothing", "Shoes">>, <<"Clothing", "Accessories">>,
       <<"Home", "Furniture">>, <<"Home", "Kitchenware">>,
       <<"Home", "Decor">>, <<"Home", "Bedding">>, <<"Home", "Lighting">>,
       <<"Books", "Fiction">>, <<"Books", "Non-Fiction">>,
       <<"Books", "Educational">>, <<"Books", "Children">>,
       <<"Books", "Cookbook">>,
       <<"Sports", "Equipment">>, <<"Sports", "Apparel">>,
       <<"Sports", "Footwear">>, <<"Sports", "Accessories">> >>

\* Variant: the markup is not applied, and a product sells at its cost.
GenerateProductCatalogAtCost(draws) ==
    [k \in 1..Len(draws) |->
        [product_id    |-> k,
         product_name  |-> Categories[k][2] \o " " \o draws[k].suffix,
         category      |-> Categories[k][1],
         subcategory   |-> Categories[k][2],
         base_cost     |-> draws[k].base_cost * 100,
         selling_price |-> draws[k].base_cost * 100]]

\* _generate_product_catalog with the random draws given: draws[k] holds the
\* base cost in cents (uniform(10, 500)), the markup in thousandths
\* (uniform(1.2, 2.5)) and the name suffix of the k-th product.  The catalog
\* of the model stops after Len(draws) products.
GenerateProductCatalog(draws) ==
    [k \in 1..Len(draws) |->
        [product_id    |-> k,
         product_name  |-> Categories[k][2] \o " " \o draws[k].suffix,
         category      |-> Categories[k][1],
         subcategory   |-> Categories[k][2],
         base_cost     |-> draws[k].base_cost * 100,
         selling_price |-> RoundDiv(draws[k].base_cost * draws[k].markup, 1000) * 100]]

\* first.lower() / last.lower() for the names the model draws.
Lower(name) ==
    CASE name = "James"   -> "james"
      [] name = "Mary"    -> "mary"
      [] name = "Smith"   -> "smith"
      [] name = "Johnson" -> "johnson"

\* _generate_customer_list with the random draws given: draws[k] holds the
\* first name, last name and segment of customer k.  The roster of the model
\* stops after Len(draws) customers.
GenerateCustomerList(draws) ==
    [k \in 1..Len(draws) |->
        [customer_id      |-> k,
         customer_name    |-> draws[k].first \o " " \o draws[k].last,
         email            |-> Lower(draws[k].first) \o "." \o Lower(draws[k].last)
                                  \o "@email.com",
         customer_segment |-> draws[k].segment]]

\* Variant: FLASH30 takes 60 percent off.
GenerateCouponListSixty ==
    << [code |-> "WELCOME10", discount_percent |-> 10, min_order |-> 0],
       [code |-> "SAVE15",    discount_percent |-> 15, min_order |-> 50 * 10000],
       [code |-> "SUMMER20",  discount_percent |-> 20, min_order |-> 100 * 10000],
       [code |-> "VIP25",     discount_percent |-> 25, min_order |-> 200 * 10000],
       [code |-> "FREESHIP",  discount_percent |-> 0,  min_order |-> 75 * 10000,
        free_shipping |-> TRUE],
       [code |-> "FLASH30",   discount_percent |-> 60, min_order |-> 150 * 10000] >>

\* _generate_coupon_list; min_order in units of 1/10000 dollar.
GenerateCouponList ==
    << [code |-> "WELCOME10", discount_percent |-> 10, min_order |-> 0],
       [code |-> "SAVE15",    discount_percent |-> 15, min_order |-> 50 * 10000],
       [code |-> "SUMMER20",  discount_percent |-> 20, min_order |-> 100 * 10000],
       [code |-> "VIP25",     discount_percent |-> 25, min_order |-> 200 * 10000],
       [code |-> "FREESHIP",  discount_percent |-> 0,  min_order |-> 75 * 10000,
        free_shipping |-> TRUE],
       [code |-> "FLASH30",   discount_percent |-> 30, min_order |-> 150 * 10000] >>

----------------------------------------------------------------------------
\* _generate_order_date

\* The order date for the draws days_ago, hour, minute, second.
GenerateOrderDate(base_date, days_ago, hour, minute, second) ==
    Replace(MinusDays(base_date, days_ago), hour, minute, second)

----------------------------------------------------------------------------
\* _calculate_discount

\* Variant: the percentage is divided by 10 instead of 100.
CalculateDiscountTenth(total_price, coupon) ==
    IF coupon # None /\ total_price >= coupon.min_order
    THEN IF "free_shipping" \in DOMAIN coupon /\ coupon.free_shipping
         THEN IF 15 * 10000 <= total_price \div 10
              THEN 15 * 10000
              ELSE total_price \div 10
         ELSE (total_price \div 10) * coupon.discount_percent
    ELSE 0

\* Variant: an order total equal to min_order does not qualify.
CalculateDiscountStrict(total_price, coupon) ==
    IF coupon # None /\ total_price > coupon.min_order
    THEN IF "free_shipping" \in DOMAIN coupon /\ coupon.free_shipping
         THEN IF 15 * 10000 <= total_price \div 10
              THEN 15 * 10000
              ELSE total_price \div 10
         ELSE (total_price \div 100) * coupon.discount_percent
    ELSE 0

CalculateDiscount(total_price, coupon) ==
    IF coupon # None /\ total_price >= coupon.min_order
    THEN IF "free_shipping" \in DOMAIN coupon /\ coupon.free_shipping
         THEN IF 15 * 10000 <= total_price \div 10
              THEN 15 * 10000
              ELSE total_price \div 10
         ELSE (total_price \div 100) * coupon.discount_percent
    ELSE 0

----------------------------------------------------------------------------
\* _detect_fraud_patterns

\* ', '.join(list)
RECURSIVE Join(_)
Join(list) ==
    IF Len(list) = 0 THEN ""
    ELSE IF Len(list) = 1 THEN list[1]
    ELSE list[1] \o ", " \o Join(Tail(list))

\* Variant: the high-value rule fires from 500 on.
FraudIndicatorListFrom500(order_data) ==
    (IF order_data.customer_segment = "New" /\ order_data.total_price >= 500 * 10000
     THEN <<"High value new customer">> ELSE <<>>)
    \o
    (IF order_data.orders_in_last_hour > 3
     THEN <<"Multiple orders in short time">> ELSE <<>>)
    \o
    (IF order_data.coupon_code # NoneStr
        /\ 2 * order_data.total_discount > order_data.total_price
     THEN <<"High discount usage">> ELSE <<>>)
    \o
    (IF order_data.shipping_country # "USA" /\ order_data.shipping_method = "Express"
     THEN <<"International express shipping">> ELSE <<>>)

\* Variant: the rules are chained with elif, so that a rule is tried only
\* when no earlier rule fired.
FraudIndicatorListElif(order_data) ==
    IF order_data.customer_segment = "New" /\ order_data.total_price > 500 * 10000
    THEN <<"High value new customer">>
    ELSE IF order_data.orders_in_last_hour > 3
    THEN <<"Multiple orders in short time">>
    ELSE IF order_data.coupon_code # NoneStr
            /\ 2 * order_data.total_discount > order_data.total_price
    THEN <<"High discount usage">>
    ELSE IF order_data.shipping_country # "USA" /\ order_data.shipping_method = "Express"
    THEN <<"International express shipping">>
    ELSE <<>>

\* The list fraud_indicators after the four rules have run, in append order.
FraudIndicatorList(order_data) ==
    (IF order_data.customer_segment = "New" /\ order_data.total_price > 500 * 10000
     THEN <<"High value new customer">> ELSE <<>>)
    \o
    (IF order_data.orders_in_last_hour > 3
     THEN <<"Multiple orders in short time">> ELSE <<>>)
    \o
    (IF order_data.coupon_code # NoneStr
        /\ 2 * order_data.total_discount > order_data.total_price
     THEN <<"High discount usage">> ELSE <<>>)
    \o
    (IF order_data.shipping_country # "USA" /\ order_data.shipping_method = "Express"
     THEN <<"International express shipping">> ELSE <<>>)

\* Variant: the sentinel is spelled differently from the one generate_orders
\* compares with.
DetectFraudPatternsOtherSentinel(order_data) ==
    LET fraud_indicators == FraudIndicatorList(order_data)
    IN  IF Len(fraud_indicators) > 0 THEN Join(fraud_indicators)
        ELSE "No Indicators"

DetectFraudPatterns(order_data) ==
    LET fraud_indicators == FraudIndicatorList(order_data)
    IN  IF Len(fraud_indicators) > 0 THEN Join(fraud_indicators)
        ELSE "No indicators"

----------------------------------------------------------------------------
\* generate_orders

\* The lists random.choice draws from in the loop body.
ShippingMethods == <<"Standard", "Express", "Next Day">>
ShippingCountries == <<"USA", "USA", "USA", "Canada", "UK", "Australia">>
PaymentMethods == <<"Credit Card", "PayPal", "Debit Card", "Apple Pay">>
OrderStatuses == <<"Delivered", "Shipped", "Processing", "Cancelled">>

\* Variant: the no-coupon outcome is repeated 10 times.
CouponPoolTenNone(coupon_list) == coupon_list \o [k \in 1..10 |-> None]

\* self.coupons + [None] * 4
CouponPool(coupon_list) == coupon_list \o [k \in 1..4 |-> None]

\* Variant: the None slots are appended in place (self.coupons += [None] * 4).
CouponsExtendedInPlace(coupon_list) == coupon_list \o [k \in 1..4 |-> None]

\* self.coupons after line 171: the + builds a new list, and the attribute
\* holds the list it held.
CouponsAfterDraw(coupon_list) == coupon_list

\* Variant: the entry found is ignored, as when the history list is created
\* anew for every order.
GetAlwaysDefault(dict, key, default) == default

\* dict.get(key, default)
Get(dict, key, default) == IF key \in DOMAIN dict THEN dict[key] ELSE default

\* Variant: dict.setdefault(key, value), which keeps the value of a key the
\* dict already has.
PutIfAbsent(dict, key, value) ==
    [k \in DOMAIN dict \cup {key} |-> IF k \in DOMAIN dict THEN dict[k] ELSE value]

\* dict[key] = value
Put(dict, key, value) ==
    [k \in DOMAIN dict \cup {key} |-> IF k = key THEN value ELSE dict[k]]

\* orders_in_last_hour of the loop body, before the history is updated.
OrdersInLastHour(order_counts, last_order_time, customer_id, current_time) ==
    IF customer_id \in DOMAIN last_order_time
    THEN LET history == Get(order_counts, customer_id, <<>>)
         IN  Cardinality({k \in 1..Len(history) :
                              WithinOneHourOf(current_time, history[k])})
    ELSE 0

\* Variant: VIP customers are charged 90 percent of the selling price.
UnitPriceBySegment(customer, product) ==
    IF customer.customer_segment = "VIP"
    THEN (product.selling_price \div 1000) * 900
    ELSE product.selling_price

\* unit_price of the loop body: the product's selling price, whoever the
\* customer drawn at line 144 is.
UnitPrice(customer, product) == product.selling_price

\* Variant: range(num_orders + 1).
InRangeInclusive(k, n) == k <= n

\* The loop goes on while its counter is in range(num_orders).
InRange(k, n) == k < n

\* generate_orders(num_orders) is entered: the locals are initialised.
CallGenerateOrders(Ns) ==
    /\ pc = "idle"
    /\ \E n \in Ns : num_orders' = n
    /\ pc' = "loop"
    /\ i' = 0
    /\ orders' = <<>>
    /\ customer_order_counts' = <<>>
    /\ customer_last_order_time' = <<>>
    /\ UNCHANGED <<products, customers, coupons, fraud_data, clock, result,
                   call, ret,
                   dashVars>>

\* One iteration of the loop.  D names the values the random source and the
\* clock yield: slots of the lists drawn from, and the sets of the integer
\* draws.
GenerateOrder(D) ==
    /\ pc = "loop"
    /\ InRange(i, num_orders)
    /\ Len(customers) > 0
    /\ Len(products) > 0
    /\ \E cslot \in D.customer_slots \cap 1..Len(customers),
          pslot \in D.product_slots \cap 1..Len(products),
          now \in {c \in D.clocks : DtLE(clock, c)},
          days_ago \in D.days, hour \in D.hours, minute \in D.minutes,
          second \in D.seconds,
          quantity \in D.quantities,
          kslot \in D.coupon_slots \cap 1..Len(CouponPool(coupons)),
          mslot \in D.method_slots, yslot \in D.country_slots,
          payslot \in D.payment_slots, stslot \in D.status_slots,
          order_id \in D.order_ids :
        LET customer == customers[cslot]
            product == products[pslot]
            customer_id == customer.customer_id
            current_time == GenerateOrderDate(now, days_ago, hour, minute, second)
            orders_in_last_hour ==
                OrdersInLastHour(customer_order_counts, customer_last_order_time,
                                 customer_id, current_time)
            unit_price == UnitPrice(customer, product)
            total_price == unit_price * quantity
            coupon == CouponPool(coupons)[kslot]
            coupon_code == IF coupon # None THEN coupon.code ELSE NoneStr
            total_discount == CalculateDiscount(total_price, coupon)
            final_price == total_price - total_discount
            total_cost == product.base_cost * quantity
            profit == final_price - total_cost
            shipping_method == ShippingMethods[mslot]
            shipping_country == ShippingCountries[yslot]
            data == [customer_segment    |-> customer.customer_segment,
                     total_price         |-> total_price,
                     coupon_code         |-> coupon_code,
                     total_discount      |-> total_discount,
                     orders_in_last_hour |-> orders_in_last_hour,
                     shipping_country    |-> shipping_country,
                     shipping_method     |-> shipping_method]
            fraud_indicators == DetectFraudPatterns(data)
            Value(field) ==
                <<field, product.base_cost, unit_price, quantity, coupon_code>>
        IN  \E r_total \in Round2(total_price, Value("total_price")),
               r_cost \in Round2(total_cost, Value("base_cost")),
               r_discount \in Round2(total_discount, Value("total_discount")),
               r_final \in Round2(final_price, Value("final_price")),
               r_profit \in Round2(profit, Value("profit")) :
              /\ clock' = now
              /\ customer_order_counts' =
                    Put(customer_order_counts, customer_id,
                        Append(Get(customer_order_counts, customer_id, <<>>),
                               current_time))
              /\ customer_last_order_time' =
                    Put(customer_last_order_time, customer_id, current_time)
              /\ fraud_data' = data
              /\ orders' = Append(orders,
                    [order_id         |-> order_id,
                     order_date       |-> current_time,
                     customer_id      |-> customer_id,
                     customer_name    |-> customer.customer_name,
                     customer_email   |-> customer.email,
                     customer_segment |-> customer.customer_segment,
                     product_id       |-> product.product_id,
                     product_name     |-> product.product_name,
                     category         |-> product.category,
                     subcategory      |-> product.subcategory,
                     quantity         |-> quantity,
                     unit_price       |-> unit_price,
                     total_price      |-> r_total,
                     base_cost        |-> r_cost,
                     coupon_code      |-> coupon_code,
                     total_discount   |-> r_discount,
                     final_price      |-> r_final,
                     profit           |-> r_profit,
                     shipping_method  |-> shipping_method,
                     shipping_country |-> shipping_country,
                     payment_method   |-> PaymentMethods[payslot],
                     order_status     |-> OrderStatuses[stslot],
                     fraud_indicators |-> fraud_indicators,
                     is_high_risk     |-> Len(fraud_indicators) > 0
                                          /\ fraud_indicators # "No indicators"])
    /\ i' = i + 1
    /\ coupons' = CouponsAfterDraw(coupons)
    /\ UNCHANGED <<products, customers, pc, num_orders, result,
                   call, ret,
                   dashVars>>

\* Variant: the exception is swallowed and the orders so far are returned.
RaiseIndexErrorSwallowed ==
    /\ pc = "loop"
    /\ InRange(i, num_orders)
    /\ Len(customers) = 0 \/ Len(products) = 0
    /\ result' = orders
    /\ pc' = "done"
    /\ UNCHANGED <<products, customers, coupons, num_orders, i, orders,
                   customer_order_counts, customer_last_order_time,
                   fraud_data, clock, call, ret,
                   dashVars>>

\* random.choice of an empty sequence raises IndexError: the call is left
\* through the exception and returns nothing.
RaiseIndexError ==
    /\ pc = "loop"
    /\ InRange(i, num_orders)
    /\ Len(customers) = 0 \/ Len(products) = 0
    /\ pc' = "IndexError"
    /\ UNCHANGED <<products, customers, coupons, num_orders, i, orders,
                   customer_order_counts, customer_last_order_time,
                   fraud_data, clock, result, call, ret,
                   dashVars>>

\* The loop is over: return pd.DataFrame(orders).
ReturnDataFrame ==
    /\ pc = "loop"
    /\ ~ InRange(i, num_orders)
    /\ result' = orders
    /\ pc' = "done"
    /\ UNCHANGED <<products, customers, coupons, num_orders, i, orders,
                   customer_order_counts, customer_last_order_time,
                   fraud_data, clock, call, ret,
                   dashVars>>

----------------------------------------------------------------------------
\* Direct calls of the helper methods

\* self._calculate_discount(total_price, coupon)
CallCalculateDiscount(Prices) ==
    /\ pc = "idle"
    /\ \E total_price \in Prices, k \in 1..Len(CouponPool(coupons)) :
          LET coupon == CouponPool(coupons)[k]
          IN  /\ call' = [method |-> "_calculate_discount",
                          total_price |-> total_price, coupon |-> coupon]
              /\ ret' = CalculateDiscount(total_price, coupon)
    /\ UNCHANGED <<products, customers, coupons, pc, num_orders, i, orders,
                   customer_order_counts, customer_last_order_time,
                   fraud_data, clock, result,
                   dashVars>>

\* self._detect_fraud_patterns(order_data)
CallDetectFraudPatterns(Contexts) ==
    /\ pc = "idle"
    /\ \E order_data \in Contexts :
          /\ call' = [method |-> "_detect_fraud_patterns",
                      order_data |-> order_data]
          /\ ret' = DetectFraudPatterns(order_data)
    /\ UNCHANGED <<products, customers, coupons, pc, num_orders, i, orders,
                   customer_order_counts, customer_last_order_time,
                   fraud_data, clock, result,
                   dashVars>>

\* self._generate_order_date(base_date): base_date None reads the clock.
CallGenerateOrderDate(D) ==
    /\ pc = "idle"
    /\ \E given \in D.clocks \cup {None},
          now \in {c \in D.clocks : DtLE(clock, c)},
          days_ago \in D.days, hour \in D.hours, minute \in D.minutes,
          second \in D.seconds :
          LET base_date == IF given = None THEN now ELSE given
          IN  /\ clock' = IF given = None THEN now ELSE clock
              /\ call' = [method |-> "_generate_order_date",
                          base_date |-> base_date]
              /\ ret' = GenerateOrderDate(base_date, days_ago, hour, minute, second)
    /\ UNCHANGED <<products, customers, coupons, pc, num_orders, i, orders,
                   customer_order_counts, customer_last_order_time,
                   fraud_data, result,
                   dashVars>>

----------------------------------------------------------------------------
\* The dashboard (app.py): tables

\* A DataFrame: its columns and its rows.  A row holds a cell for every
\* column of the model and names in `nulls` the columns whose cell is empty
\* (NaN); the cells of a column the table does not have are never read.
DataFrame(columns, rows) == [columns |-> columns, rows |-> rows]

\* pd.to_datetime of the order_date texts of the model's tables.
ToDatetime(text) ==
    CASE text = "2026-10-28 09:15:00" -> DateTime(397, 9, 15, 0, 0)
      [] text = "2026-10-28 23:59:59" -> DateTime(397, 23, 59, 59, 0)
      [] text = "2026-10-30 10:00:00" -> DateTime(399, 10, 0, 0, 0)
      [] text = "2026-10-30 10:00:01" -> DateTime(399, 10, 0, 1, 0)

\* frame['order_date'] = pd.to_datetime(frame['order_date'])
ParseOrderDate(frame) ==
    [frame EXCEPT !.rows =
        [k \in 1..Len(frame.rows) |->
            [frame.rows[k] EXCEPT !.order_date = ToDatetime(@.text)]]]

\* str(KeyError(column))
KeyError(column) == "'" \o column \o "'"

\* The first of the columns `needs` that the table does not have, when
\* frame[column] is evaluated for each in turn; NoneStr when it has all.
Missing(frame, needs) ==
    IF \E k \in 1..Len(needs) : needs[k] \notin frame.columns
    THEN needs[CHOOSE k \in 1..Len(needs) :
                   /\ needs[k] \notin frame.columns
                   /\ \A j \in 1..(k - 1) : needs[j] \in frame.columns]
    ELSE NoneStr

\* Series.sum(): empty cells are skipped.
RECURSIVE SumCol(_, _)
SumCol(rows, column) ==
    IF Len(rows) = 0 THEN 0
    ELSE (IF column \in rows[1].nulls THEN 0 ELSE rows[1][column])
         + SumCol(Tail(rows), column)

\* The number of cells of a column that hold a value: Series.count().
CountCol(rows, column) ==
    Cardinality({k \in 1..Len(rows) : column \notin rows[k].nulls})

\* The values of a column, empty cells left out: Series.unique().
Unique(rows, column) ==
    {rows[k][column] : k \in {j \in 1..Len(rows) : column \notin rows[j].nulls}}

\* Series.min() and Series.max() of a numeric column with a value.
MinCol(rows, column) ==
    CHOOSE v \in Unique(rows, column) : \A w \in Unique(rows, column) : v <= w

MaxCol(rows, column) ==
    CHOOSE v \in Unique(rows, column) : \A w \in Unique(rows, column) : v >= w

\* frame[frame[column] == value]
WhereEq(rows, column, value) ==
    SelectSeq(rows, LAMBDA r : column \notin r.nulls /\ r[column] = value)

\* Floats that are not numbers.
NaN == [float |-> "nan"]
Inf == [float |-> "inf"]

\* numerator / denominator * 100 over numpy floats: a division by zero
\* raises nothing and gives nan (0/0) or an infinity.
Rate(numerator, denominator) ==
    IF denominator = 0
    THEN IF numerator = 0 THEN NaN ELSE Inf
    ELSE [percent_of |-> numerator, over |-> denominator]

\* Series.mean(): nan when no cell holds a value.
MeanCol(rows, column) ==
    IF CountCol(rows, column) = 0 THEN NaN
    ELSE [sum |-> SumCol(rows, column), count |-> CountCol(rows, column)]

\* (numerator / denominator) * 100 if denominator > 0 else 0
RateIfPositive(numerator, denominator) ==
    IF denominator > 0 THEN Rate(numerator, denominator)
    ELSE [percent_of |-> 0, over |-> 1]

----------------------------------------------------------------------------
\* The dashboard: messages and what a view shows

Message(kind, text) == [kind |-> kind, text |-> text]

\* One stretch of a view: the columns it reads, in order, and what it shows
\* when the table has them all; `raises` is the text of the exception it
\* ends in otherwise.  A lookup frame[column] gives str(KeyError(column));
\* an agg({...}) over a missing column words its KeyError differently from
\* one pandas version to the next, and the model keeps the column's name.
Step(frame, needs, shows) ==
    [raises |-> IF Missing(frame, needs) = NoneStr THEN NoneStr
                ELSE KeyError(Missing(frame, needs)),
     shows  |-> shows]

\* A stretch that ends in the exception `text` when `fails` holds.
StepRaising(fails, text, shows) ==
    [raises |-> IF fails THEN text ELSE NoneStr, shows |-> shows]

\* The stretches run in order up to the first that raises.
RECURSIVE RunSteps(_, _)
RunSteps(steps, shown) ==
    IF Len(steps) = 0 THEN [raised |-> NoneStr, shown |-> shown]
    ELSE IF steps[1].raises # NoneStr
         THEN [raised |-> steps[1].raises, shown |-> shown]
         ELSE RunSteps(Tail(steps), shown \o steps[1].shows)

----------------------------------------------------------------------------
\* __init__, load_data and show_dataset_info

\* show_dataset_info on a table that is not None.
ShowDatasetInfo(frame) ==
    RunSteps(
        << Step(frame, <<"total_price">>,
                << <<"Total Revenue", SumCol(frame.rows, "total_price")>> >>),
           Step(frame, <<>>,
                << <<"Total Orders", Len(frame.rows)>> >>),
           Step(frame, <<"profit">>,
                << <<"Total Profit", SumCol(frame.rows, "profit")>> >>),
           Step(frame, <<"total_price">>,
                << <<"Average Order Value", MeanCol(frame.rows, "total_price")>> >>) >>,
        <<>>)

\* EcommerceDashboard(): the attributes are set to None and load_data runs.
\* csv_file is None when no file was uploaded and the default file cannot
\* be read.
LoadData ==
    /\ dpc = "start"
    /\ IF csv_file = None
       THEN /\ df' = None
            /\ original_df' = None
            /\ messages' = Append(Append(messages,
                    Message("warning", "Please generate data first using data_generator.py.")),
                    Message("info", "Demo Instructions"))
            /\ views' = views
       ELSE LET read == csv_file.frame
                note == IF csv_file.source = "uploaded"
                        THEN Message("success", "Data loaded successfully")
                        ELSE Message("info", "Using default generated dataset")
            IN  /\ original_df' = read
                /\ IF "order_date" \notin read.columns
                   THEN /\ df' = read
                        /\ messages' = Append(messages,
                              Message("error", "Error loading data: "
                                                   \o KeyError("order_date")))
                        /\ views' = views
                   ELSE LET info == ShowDatasetInfo(ParseOrderDate(read))
                        IN  /\ df' = ParseOrderDate(read)
                            /\ views' = Put(views, "Dataset Info", info)
                            /\ messages' =
                                  IF info.raised = NoneStr
                                  THEN Append(messages, note)
                                  ELSE Append(Append(messages, note),
                                           Message("error", "Error loading data: "
                                                                \o info.raised))
    /\ dpc' = "loaded"
    /\ UNCHANGED <<products, customers, coupons, pc, num_orders, i, orders,
                   customer_order_counts, customer_last_order_time,
                   fraud_data, clock, result, call, ret, csv_file, selection>>

----------------------------------------------------------------------------
\* run and create_filters

\* What main shows for an exception that leaves EcommerceDashboard() or run.
MainError(shown, text) ==
    Append(Append(shown,
        Message("error", "An error occurred while running the dashboard: " \o text)),
        Message("info", "Please check your data file and try again."))

\* The values st.date_input can return: a pair of dates within
\* [min_date, max_date], or one date while the range is being picked.
DateRanges(rows) ==
    LET dates == {rows[k].order_date.day : k \in 1..Len(rows)}
        min_date == CHOOSE d \in dates : \A e \in dates : d <= e
        max_date == CHOOSE d \in dates : \A e \in dates : d >= e
    IN  {range \in (min_date..max_date) \X (min_date..max_date) :
                range[1] <= range[2]}
        \cup {<<s>> : s \in min_date..max_date}

\* The date range shown before the user touches the widget.
FullDateRange(rows) ==
    LET dates == {rows[k].order_date.day : k \in 1..Len(rows)}
    IN  << CHOOSE d \in dates : \A e \in dates : d <= e,
           CHOOSE d \in dates : \A e \in dates : d >= e >>

\* Lines 195-200: the rows whose date lies in the range picked.
ByDateRange(rows, date_range) ==
    IF Len(date_range) = 2
    THEN SelectSeq(rows, LAMBDA r : /\ r.order_date.day >= date_range[1]
                                    /\ r.order_date.day <= date_range[2])
    ELSE rows

\* Lines 203-218: a selectbox of 'All ...' and the values of the column.
Options(all, rows, column) == {all} \cup Unique(rows, column)

BySelectbox(all, rows, column, selected) ==
    IF selected # all THEN WhereEq(rows, column, selected) ELSE rows

\* The values the price slider can return for the rows it is built from:
\* pairs lo <= hi between the smallest and the largest total_price.
PriceRanges(rows) ==
    LET prices == Unique(rows, "total_price")
    IN  {range \in prices \X prices : range[1] <= range[2]}

\* The slider's bounds do not span a range: no row is left, or all rows have
\* one total_price.  Depending on its version streamlit raises a
\* StreamlitAPIException then, or returns the bounds given.
SliderDegenerate(rows) == Cardinality(Unique(rows, "total_price")) <= 1

\* Lines 230-233: comparisons with an empty cell, or with nan bounds, are
\* False.
ByPriceRange(rows, price_range) ==
    IF Len(price_range) = 2
    THEN SelectSeq(rows, LAMBDA r : /\ "total_price" \notin r.nulls
                                    /\ r.total_price >= price_range[1]
                                    /\ r.total_price <= price_range[2])
    ELSE <<>>

\* Line 236
RiskFilterOffered(frame) == "is_high_risk" \in frame.columns

\* Lines 237-241
ByRisk(rows, fraud_filter) ==
    CASE fraud_filter = "High Risk Only" ->
             SelectSeq(rows, LAMBDA r : "is_high_risk" \notin r.nulls /\ r.is_high_risk)
      [] fraud_filter = "Low Risk Only" ->
             SelectSeq(rows, LAMBDA r : "is_high_risk" \notin r.nulls /\ ~ r.is_high_risk)
      [] OTHER -> rows

\* Lines 177-182: the table a filter cycle starts from.
FilterBase(frame, original) ==
    IF original # None THEN original ELSE frame

\* run up to its test of the filtered table: create_filters with the widget
\* values drawn, then lines 920-922.
CreateFilters ==
    /\ dpc = "loaded"
    /\ IF df = None \/ Len(df.rows) = 0
       THEN /\ df' = df
            /\ selection' = None
            /\ messages' = Append(Append(messages,
                    Message("warning", "No data available for filtering")),
                    Message("error", "No data available. Please check your filters or upload a file."))
            /\ dpc' = "done"
       ELSE LET base == FilterBase(df, original_df)
                missing == Missing(base, <<"order_date", "category", "customer_segment",
                                          "order_status", "total_price">>)
            IN  IF missing # NoneStr
                THEN /\ df' = df
                     /\ selection' = None
                     /\ messages' = MainError(messages, KeyError(missing))
                     /\ dpc' = "done"
                ELSE LET all == ParseOrderDate(base).rows IN
                     \E date_range \in DateRanges(all) :
                     LET dated == ByDateRange(all, date_range) IN
                     \E category \in Options("All Categories", dated, "category") :
                     LET in_category == BySelectbox("All Categories", dated,
                                                    "category", category) IN
                     \E segment \in Options("All Segments", in_category,
                                            "customer_segment") :
                     LET in_segment == BySelectbox("All Segments", in_category,
                                                   "customer_segment", segment) IN
                     \E status \in Options("All Statuses", in_segment, "order_status") :
                     LET in_status == BySelectbox("All Statuses", in_segment,
                                                  "order_status", status) IN
                     \E slider_raises \in IF SliderDegenerate(in_status)
                                          THEN BOOLEAN ELSE {FALSE} :
                     \E price_range \in IF Unique(in_status, "total_price") = {}
                                        THEN {<<>>} ELSE PriceRanges(in_status) :
                     LET in_range == ByPriceRange(in_status, price_range) IN
                     \E fraud_filter \in IF RiskFilterOffered(base)
                                         THEN {"All Orders", "High Risk Only",
                                               "Low Risk Only"}
                                         ELSE {NoneStr} :
                     \E reset \in BOOLEAN :
                     LET filtered == IF reset THEN all
                                     ELSE ByRisk(in_range, fraud_filter)
                     IN  IF slider_raises
                         THEN /\ df' = df
                              /\ selection' = None
                              /\ messages' = MainError(messages,
                                    "Slider min_value must be less than the max_value.")
                              /\ dpc' = "done"
                         ELSE /\ df' = DataFrame(base.columns, filtered)
                              /\ selection' =
                                    [date_range   |-> date_range,
                                     category     |-> category,
                                     segment      |-> segment,
                                     status       |-> status,
                                     price_range  |-> price_range,
                                     fraud_filter |-> fraud_filter,
                                     reset        |-> reset]
                              /\ messages' =
                                    IF Len(filtered) = 0
                                    THEN Append(Append(messages,
                                            Message("sidebar", "Filtered Results")),
                                            Message("error", "No data available. Please check your filters or upload a file."))
                                    ELSE Append(messages,
                                            Message("sidebar", "Filtered Results"))
                              /\ dpc' = IF Len(filtered) = 0 THEN "done" ELSE "filtered"
    /\ UNCHANGED <<products, customers, coupons, pc, num_orders, i, orders,
                   customer_order_counts, customer_last_order_time,
                   fraud_data, clock, result, call, ret,
                   csv_file, original_df, views>>

----------------------------------------------------------------------------
\* The tabs.  Each view is the sequence of its stretches: the columns read
\* and the figures shown.  Money sums are in units of 1/10000 dollar.

\* frame.groupby(column)[value].sum()
GroupSum(rows, column, value) ==
    [g \in Unique(rows, column) |-> SumCol(WhereEq(rows, column, g), value)]

\* The rate profit / total_price * 100 of every group, computed without a
\* test of the denominator (lines 583 and 613).
GroupMargin(rows, column) ==
    [g \in Unique(rows, column) |->
        Rate(SumCol(WhereEq(rows, column, g), "profit"),
             SumCol(WhereEq(rows, column, g), "total_price"))]

\* The rate of every group behind the test `if data['total_price'] > 0`
\* (line 360).
GroupMarginIfPositive(rows, column) ==
    [g \in Unique(rows, column) |->
        RateIfPositive(SumCol(WhereEq(rows, column, g), "profit"),
                       SumCol(WhereEq(rows, column, g), "total_price"))]

\* Every view starts with this test (lines 259, 395, 549, 685, 826).
NoDataWarning == [raised |-> NoneStr,
                  shown |-> << <<"warning", "No data available with current filters">> >>]

\* create_overview_dashboard
OverviewDashboard(frame) ==
    IF Len(frame.rows) = 0 THEN NoDataWarning ELSE
    RunSteps(
        << Step(frame, <<"customer_id">>,
                << <<"Unique Customers", Cardinality(Unique(frame.rows, "customer_id"))>> >>),
           Step(frame, <<"order_id">>,
                << <<"Unique Products", Cardinality(Unique(frame.rows, "order_id"))>> >>),
           Step(frame, <<"order_status">>,
                << <<"Order Success Rate",
                     Rate(Len(SelectSeq(frame.rows, LAMBDA r :
                              "order_status" \notin r.nulls
                              /\ r.order_status \in {"Delivered", "Shipped"})),
                          Len(frame.rows))>> >>),
           IF {"total_discount", "total_price"} \subseteq frame.columns
           THEN Step(frame, <<>>,
                     << <<"Average Discount Rate",
                          Rate(SumCol(frame.rows, "total_discount"),
                               SumCol(frame.rows, "total_price"))>> >>)
           ELSE Step(frame, <<"quantity">>,
                     << <<"Total Quantity", SumCol(frame.rows, "quantity")>> >>),
           Step(frame, <<"category", "total_price">>,
                << <<"Revenue by Category",
                     GroupSum(frame.rows, "category", "total_price")>> >>),
           Step(frame, <<"order_date", "total_price", "order_id">>,
                << <<"Weekly Sales", SumCol(frame.rows, "total_price")>> >>),
           IF "customer_name" \in frame.columns
           THEN Step(frame, <<"total_price", "order_id", "profit">>,
                     << <<"Customer Margin",
                          GroupMarginIfPositive(frame.rows, "customer_name")>> >>)
           ELSE Step(frame, <<>>,
                     << <<"info", "Customer name data not available">> >>),
           IF "payment_method" \in frame.columns
           THEN Step(frame, <<>>,
                     << <<"Payment Methods", Unique(frame.rows, "payment_method")>> >>)
           ELSE Step(frame, <<>>,
                     << <<"info", "Payment method data not available">> >>) >>,
        <<>>)

\* create_daily_profit_dashboard
DailyProfitDashboard(frame) ==
    IF Len(frame.rows) = 0 THEN NoDataWarning ELSE
    RunSteps(
        << Step(frame, <<"order_date", "total_price", "profit", "order_id", "quantity">>,
                << <<"Total Profit", SumCol(frame.rows, "profit")>>,
                   <<"Overall Profit Margin",
                     RateIfPositive(SumCol(frame.rows, "profit"),
                                    SumCol(frame.rows, "total_price"))>>,
                   <<"Days", {frame.rows[k].order_date.day : k \in 1..Len(frame.rows)}>> >>) >>,
        <<>>)

\* create_popular_products_dashboard
PopularProductsDashboard(frame) ==
    IF Len(frame.rows) = 0 THEN NoDataWarning ELSE
    RunSteps(
        << Step(frame, <<"product_name", "quantity">>,
                << <<"Quantity by Product",
                     GroupSum(frame.rows, "product_name", "quantity")>> >>),
           Step(frame, <<"product_name", "profit">>,
                << <<"Profit by Product",
                     GroupSum(frame.rows, "product_name", "profit")>> >>),
           Step(frame, <<"profit", "total_price">>,
                << <<"Average Profit Margin",
                     RateIfPositive(SumCol(frame.rows, "profit"),
                                    SumCol(frame.rows, "total_price"))>> >>),
           Step(frame, <<"order_id">>,
                << <<"Unique Products", Cardinality(Unique(frame.rows, "order_id"))>> >>),
           Step(frame, <<"product_name", "quantity", "total_price", "profit", "order_id">>,
                << <<"Product Profit Margin",
                     GroupMargin(frame.rows, "product_name")>> >>),
           Step(frame, <<"category", "total_price", "profit", "order_id", "quantity">>,
                << <<"Category Profit Margin",
                     GroupMargin(frame.rows, "category")>> >>) >>,
        <<>>)

\* Variant: the fraud view takes the column for granted.
FraudColumnsAssumed(frame) == TRUE

\* Line 690: the fraud view's test of the optional column.
FraudColumnsExist(frame) == "is_high_risk" \in frame.columns

\* create_fraud_detection_dashboard
FraudDetectionDashboard(frame) ==
    IF Len(frame.rows) = 0 THEN NoDataWarning
    ELSE IF ~ FraudColumnsExist(frame)
    THEN [raised |-> NoneStr,
          shown |-> << <<"info", "Fraud detection features require 'is_high_risk' column in the dataset">> >>]
    ELSE LET high_risk_orders == ByRisk(frame.rows, "High Risk Only") IN
    RunSteps(
        << Step(frame, <<"is_high_risk", "total_price">>,
                << <<"High Risk Orders", Len(high_risk_orders)>>,
                   <<"High Risk Revenue", SumCol(high_risk_orders, "total_price")>>,
                   <<"Risk Percentage", Rate(Len(high_risk_orders), Len(frame.rows))>>,
                   <<"Revenue at Risk",
                     RateIfPositive(SumCol(high_risk_orders, "total_price"),
                                    SumCol(frame.rows, "total_price"))>> >>),
           IF Len(high_risk_orders) > 0
           THEN Step(frame, <<"customer_segment", "is_high_risk", "order_id",
                              "total_price", "payment_method", "category", "order_date">>,
                     << <<"High Risk Order Value", MeanCol(high_risk_orders, "total_price")>> >>)
           ELSE Step(frame, <<>>,
                     << <<"success", "No high-risk orders detected">> >>) >>,
        <<>>)

\* The options of the selectbox 'Rows per page'.
PageSizes == {10, 25, 50, 100}

\* The default of the column multiselect.
DefaultColumns ==
    {"order_id", "order_date", "customer_name", "product_name", "category",
     "total_price", "order_status"}

\* total_pages of line 895
TotalPages(length, page_size) ==
    IF length \div page_size >= 1 THEN length \div page_size ELSE 1

\* The positions of display_df.iloc[start_idx:end_idx], counted from 1.
PageRows(length, page_size, page_number) ==
    {k \in 1..length : /\ k > (page_number - 1) * page_size
                       /\ k <= (page_number - 1) * page_size + page_size}

\* create_data_explorer with the default columns selected and no search term.
DataExplorer(frame, page_size, page_number) ==
    IF Len(frame.rows) = 0 THEN NoDataWarning ELSE
    RunSteps(
        << Step(frame, <<"customer_id", "total_price", "order_id", "profit">>,
                << <<"Customer Lifetime Value",
                     GroupSum(frame.rows, "customer_id", "total_price")>> >>),
           Step(frame, <<"order_date", "total_price", "profit", "order_id">>,
                << <<"Monthly Revenue", SumCol(frame.rows, "total_price")>> >>),
           StepRaising(~ (DefaultColumns \subseteq frame.columns),
                "Every Multiselect default value must exist in options",
                << <<"Rows Shown", PageRows(Len(frame.rows), page_size, page_number)>> >>) >>,
        <<>>)

\* The tabs of run in order, up to the first view that raises.
RECURSIVE RunTabs(_, _)
RunTabs(tabs, rendered) ==
    IF Len(tabs) = 0 THEN rendered
    ELSE IF tabs[1][2].raised # NoneStr
         THEN Put(rendered, tabs[1][1], tabs[1][2])
         ELSE RunTabs(Tail(tabs), Put(rendered, tabs[1][1], tabs[1][2]))

\* The exception that ended the last of the tabs run, if any.
Raised(rendered) ==
    IF \E v \in DOMAIN rendered : rendered[v].raised # NoneStr
    THEN rendered[CHOOSE v \in DOMAIN rendered : rendered[v].raised # NoneStr].raised
    ELSE NoneStr

\* dict.update
Update(dict, other) ==
    [k \in DOMAIN dict \cup DOMAIN other |->
        IF k \in DOMAIN other THEN other[k] ELSE dict[k]]

\* Lines 924-946 of run, for a filtered table with rows.
RenderTabs(Sizes) ==
    /\ dpc = "filtered"
    /\ \E page_size \in Sizes :
       \E page_number \in 1..TotalPages(Len(df.rows), page_size) :
          LET rendered ==
                  RunTabs(<< <<"Business Overview", OverviewDashboard(df)>>,
                             <<"Profit Analysis", DailyProfitDashboard(df)>>,
                             <<"Product Performance", PopularProductsDashboard(df)>>,
                             <<"Fraud Detection", FraudDetectionDashboard(df)>>,
                             <<"Data Explorer", DataExplorer(df, page_size, page_number)>> >>,
                          <<>>)
          IN  /\ views' = Update(views, rendered)
              /\ messages' = IF Raised(rendered) # NoneStr
                             THEN MainError(messages, Raised(rendered))
                             ELSE messages
    /\ dpc' = "done"
    /\ UNCHANGED <<products, customers, coupons, pc, num_orders, i, orders,
                   customer_order_counts, customer_last_order_time,
                   fraud_data, clock, result, call, ret,
                   csv_file, df, original_df, selection>>

\* An interaction with a widget: streamlit runs the script again from the
\* top, and main builds a new EcommerceDashboard.
Rerun ==
    /\ dpc = "done"
    /\ dpc' = "start"
    /\ df' = None
    /\ original_df' = None
    /\ selection' = None
    /\ messages' = <<>>
    /\ views' = <<>>
    /\ UNCHANGED <<products, customers, coupons, pc, num_orders, i, orders,
                   customer_order_counts, customer_last_order_time,
                   fraud_data, clock, result, call, ret, csv_file>>

----------------------------------------------------------------------------
\* The values drawn

\* Draws of _generate_product_catalog: selling prices 12.05, 500.00, 500.01,
\* 25.00, 50.00, 1250.00, 12.00 and 49.99.
ProductDraws ==
    << [base_cost |-> 1000,  markup |-> 1205, suffix |-> "Pro"],
       [base_cost |-> 25000, markup |-> 2000, suffix |-> "Elite"],
       [base_cost |-> 33334, markup |-> 1500, suffix |-> "Basic"],
       [base_cost |-> 2000,  markup |-> 1250, suffix |-> "Premium"],
       [base_cost |-> 4000,  markup |-> 1250, suffix |-> "Standard"],
       [base_cost |-> 50000, markup |-> 2500, suffix |-> "Pro"],
       [base_cost |-> 1000,  markup |-> 1200, suffix |-> "Basic"],
       [base_cost |-> 4166,  markup |-> 1200, suffix |-> "Elite"] >>

\* Draws of _generate_customer_list.
CustomerDraws ==
    << [first |-> "James", last |-> "Smith",   segment |-> "New"],
       [first |-> "Mary",  last |-> "Johnson", segment |-> "Regular"],
       [first |-> "Mary",  last |-> "Smith",   segment |-> "Premium"],
       [first |-> "James", last |-> "Johnson", segment |-> "VIP"] >>

\* Readings of datetime.now(), in increasing order.
Noon == DateTime(400, 12, 0, 0, 0)
LateEvening == DateTime(400, 23, 59, 59, 500000)

\* Draws of the general specification.
GeneralDraws ==
    [customer_slots |-> {1, 2}, product_slots |-> {1, 2},
     clocks |-> {Noon, LateEvening},
     days |-> {0, 365}, hours |-> {0, 23}, minutes |-> {0}, seconds |-> {0},
     quantities |-> {3}, coupon_slots |-> {7},
     method_slots |-> {1}, country_slots |-> {1},
     payment_slots |-> {1}, status_slots |-> {1},
     order_ids |-> {"3F2A9C1B"}]

\* Draws that vary the pricing of an order.
PriceDraws ==
    [GeneralDraws EXCEPT
        !.customer_slots = 1..4, !.product_slots = 1..8,
        !.clocks = {Noon}, !.days = {1}, !.hours = {10},
        !.quantities = 1..5, !.coupon_slots = 1..10,
        !.method_slots = 1..3, !.country_slots = 1..6]

\* Draws that vary the timestamps of the orders of two customers who buy
\* one product of unit price 500.01.
BurstDraws ==
    [GeneralDraws EXCEPT
        !.product_slots = {3},
        !.clocks = {Noon}, !.days = {1}, !.hours = {10, 11},
        !.seconds = {0, 1},
        !.quantities = {1}, !.coupon_slots = {7}]

\* Draws for tables a caller has replaced: slot 1 of the coupon pool is
\* WELCOME10, or None when self.coupons is empty; slot 7 is None.
TablesDraws ==
    [GeneralDraws EXCEPT
        !.clocks = {Noon}, !.days = {1}, !.hours = {10, 23},
        !.coupon_slots = {1, 7}]

\* Draws for two orders that vary the customer, the product, the quantity and
\* the coupon: slots 1, 4 and 6 of the pool are WELCOME10, VIP25 and FLASH30,
\* slot 7 is None.
SegmentDraws ==
    [GeneralDraws EXCEPT
        !.customer_slots = 1..4, !.product_slots = {1, 3},
        !.clocks = {Noon}, !.days = {1}, !.hours = {10},
        !.quantities = {1, 2, 5}, !.coupon_slots = {1, 4, 6, 7}]

\* total_price arguments of direct calls: the prices around every min_order,
\* around the free-shipping cap, and the smallest and largest order total.
PriceArguments ==
    {12 * 10000, 120500, 6250 * 10000}
    \cup {m * 10000 + e : m \in {50, 75, 100, 150, 200, 500}, e \in {-100, 0, 100}}

\* order_data arguments of direct calls.
ContextArguments ==
    [customer_segment    : {"Regular", "Premium", "VIP", "New"},
     total_price         : {100 * 10000, 500 * 10000, 500 * 10000 + 100},
     coupon_code         : {NoneStr, "FLASH30"},
     total_discount      : {0, 60 * 10000, 300 * 10000},
     orders_in_last_hour : {0, 3, 4},
     shipping_country    : {"USA", "Canada"},
     shipping_method     : {"Standard", "Express"}]

----------------------------------------------------------------------------
\* The tables the dashboard reads

\* The columns of the tables of the model: those of the generator's table
\* that app.py reads.
AllColumns ==
    {"order_id", "order_date", "customer_id", "customer_name", "product_name",
     "category", "customer_segment", "order_status", "quantity", "total_price",
     "total_discount", "profit", "payment_method", "fraud_indicators",
     "is_high_risk"}

\* The columns load_data's instructions call required (line 137).
RequiredColumns ==
    {"order_date", "total_price", "profit", "category", "customer_segment",
     "order_status"}

\* Three rows as generate_orders emits and save_to_csv writes them.
TabletOrder ==
    [order_id |-> "3F2A9C1B", order_date |-> [text |-> "2026-10-30 10:00:00"],
     customer_id |-> 1, customer_name |-> "James Smith",
     product_name |-> "Tablet Basic", category |-> "Electronics",
     customer_segment |-> "New", order_status |-> "Delivered", quantity |-> 2,
     total_price |-> 10000200, total_discount |-> 2500000, profit |-> 833400,
     payment_method |-> "Credit Card",
     fraud_indicators |-> "High value new customer", is_high_risk |-> TRUE,
     nulls |-> {}]

SmartphoneOrder ==
    [order_id |-> "7D1E4A60", order_date |-> [text |-> "2026-10-30 10:00:01"],
     customer_id |-> 2, customer_name |-> "Mary Johnson",
     product_name |-> "Smartphone Pro", category |-> "Electronics",
     customer_segment |-> "Regular", order_status |-> "Shipped", quantity |-> 1,
     total_price |-> 120500, total_discount |-> 12100, profit |-> 8500,
     payment_method |-> "PayPal",
     fraud_indicators |-> "No indicators", is_high_risk |-> FALSE,
     nulls |-> {}]

TShirtOrder ==
    [order_id |-> "B81C03DE", order_date |-> [text |-> "2026-10-28 09:15:00"],
     customer_id |-> 2, customer_name |-> "Mary Johnson",
     product_name |-> "T-Shirt Basic", category |-> "Clothing",
     customer_segment |-> "Regular", order_status |-> "Cancelled", quantity |-> 3,
     total_price |-> 360000, total_discount |-> 0, profit |-> 60000,
     payment_method |-> "Credit Card",
     fraud_indicators |-> "No indicators", is_high_risk |-> FALSE,
     nulls |-> {}]

\* Rows of tables supplied from elsewhere: an item given away, and a row
\* whose total_price cell is empty.
FreeBookOrder ==
    [order_id |-> "0A5F77C2", order_date |-> [text |-> "2026-10-28 23:59:59"],
     customer_id |-> 3, customer_name |-> "Mary Smith",
     product_name |-> "Fiction Basic", category |-> "Books",
     customer_segment |-> "Premium", order_status |-> "Delivered", quantity |-> 1,
     total_price |-> 0, total_discount |-> 0, profit |-> 0,
     payment_method |-> "Debit Card",
     fraud_indicators |-> "No indicators", is_high_risk |-> FALSE,
     nulls |-> {}]

UnpricedOrder ==
    [TShirtOrder EXCEPT !.order_id = "E4409B17", !.nulls = {"total_price"}]

GeneratedTable == DataFrame(AllColumns, <<TabletOrder, SmartphoneOrder, TShirtOrder>>)

\* The CSV files of the model: the generator's table as the default file and
\* as an upload; uploads with a free item, with an empty cell, without rows,
\* and without one of the required columns or without is_high_risk; and no
\* file at all.
CsvFiles ==
    {None,
     [source |-> "default", frame |-> GeneratedTable],
     [source |-> "uploaded", frame |-> GeneratedTable],
     [source |-> "uploaded",
      frame |-> DataFrame(AllColumns, <<TabletOrder, SmartphoneOrder, FreeBookOrder>>)],
     [source |-> "uploaded",
      frame |-> DataFrame(AllColumns, <<TabletOrder, SmartphoneOrder, UnpricedOrder>>)],
     [source |-> "uploaded", frame |-> DataFrame(AllColumns, <<>>)]}
    \cup
    {[source |-> "uploaded",
      frame |-> DataFrame(AllColumns \ {column}, GeneratedTable.rows)] :
         column \in RequiredColumns \cup {"is_high_risk"}}

\* The page sizes picked in the data explorer.
PageSizeDraws == {10, 100}

\* The order ids of a longer table: str(uuid.uuid4())[:8].upper() of
\* 26 orders.
LongTableIds ==
    <<
       "CFCD2084", "C4CA4238", "C81E728D", "ECCBC87E", "A87FF679", "E4DA3B7F",
       "1679091C", "8F14E45F", "C9F0F895", "45C48CCE", "D3D94468", "6512BD43",
       "C20AD4D7", "C51CE410", "AAB32389", "9BF31C7F", "C74D97B0", "70EFDF2E",
       "6F4922F4", "1F0E3DAD", "98F13708", "3C59DC04", "B6D767D2", "37693CFC",
       "1FF1DE77", "8E296A06" >>

\* A table of the given number of orders, all of them of the product
\* Smartphone Pro on one day: one unit in the odd rows, two in the even.
LongTable(length) ==
    DataFrame(AllColumns,
        [k \in 1..length |->
            IF k % 2 = 1
            THEN [SmartphoneOrder EXCEPT !.order_id = LongTableIds[k]]
            ELSE [SmartphoneOrder EXCEPT !.order_id = LongTableIds[k],
                                         !.quantity = 2,
                                         !.total_price = 241000,
                                         !.total_discount = 24100,
                                         !.profit = 17000]])

\* The numbers of rows of the longer tables: around one page of 10 and one
\* page of 25 rows.
LongTableLengths == {2, 10, 11, 25, 26}

\* CSV files with the longer tables.
LongCsvFiles ==
    {[source |-> "uploaded", frame |-> LongTable(length)] :
        length \in LongTableLengths}

----------------------------------------------------------------------------
\* Specifications

\* No dashboard script runs in the generator's process.
NoDashboard ==
    /\ csv_file = None
    /\ df = None
    /\ original_df = None
    /\ dpc = "off"
    /\ selection = None
    /\ messages = <<>>
    /\ views = <<>>

\* The state after EcommerceDataGenerator() with the given tables.
Constructed(product_list, customer_list, coupon_list) ==
    /\ NoDashboard
    /\ products = product_list
    /\ customers = customer_list
    /\ coupons = coupon_list
    /\ pc = "idle"
    /\ num_orders = 0
    /\ i = 0
    /\ orders = <<>>
    /\ customer_order_counts = <<>>
    /\ customer_last_order_time = <<>>
    /\ fraud_data = None
    /\ clock = Noon
    /\ result = None
    /\ call = None
    /\ ret = None

\* General specification: runs of generate_orders(n), n <= MaxOrders.
Init ==
    Constructed(GenerateProductCatalog(SubSeq(ProductDraws, 1, 2)),
                GenerateCustomerList(SubSeq(CustomerDraws, 1, 2)),
                GenerateCouponList)

Next ==
    \/ CallGenerateOrders(0..MaxOrders)
    \/ GenerateOrder(GeneralDraws)
    \/ ReturnDataFrame

Spec == Init /\ [][Next]_vars

\* The general specification with the interpreter running on: a step of the
\* call that can be taken is taken.
SpecRun == Init /\ [][Next]_vars /\ WF_vars(Next)

\* Pricing: one order, over every product, quantity, coupon slot, segment
\* and shipping draw.  The pricing of an order reads no state of earlier
\* iterations.
InitPrice ==
    Constructed(GenerateProductCatalog(ProductDraws),
                GenerateCustomerList(CustomerDraws),
                GenerateCouponList)

NextPrice ==
    \/ CallGenerateOrders({1})
    \/ GenerateOrder(PriceDraws)
    \/ ReturnDataFrame

SpecPrice == InitPrice /\ [][NextPrice]_vars

\* Order histories: up to MaxBurstOrders orders of two customers.
InitBurst ==
    Constructed(GenerateProductCatalog(SubSeq(ProductDraws, 1, 3)),
                GenerateCustomerList(SubSeq(CustomerDraws, 1, 2)),
                GenerateCouponList)

NextBurst ==
    \/ CallGenerateOrders(0..MaxBurstOrders)
    \/ GenerateOrder(BurstDraws)
    \/ ReturnDataFrame

SpecBurst == InitBurst /\ [][NextBurst]_vars

\* Tables replaced by a caller before generate_orders: each of the three
\* attributes is the constructed table or an empty list.
InitTables ==
    \E product_list \in {GenerateProductCatalog(SubSeq(ProductDraws, 1, 2)), <<>>},
       customer_list \in {GenerateCustomerList(SubSeq(CustomerDraws, 1, 2)), <<>>},
       coupon_list \in {GenerateCouponList, <<>>} :
        Constructed(product_list, customer_list, coupon_list)

NextTables ==
    \/ CallGenerateOrders(0..MaxOrders)
    \/ GenerateOrder(TablesDraws)
    \/ RaiseIndexError
    \/ ReturnDataFrame

SpecTables == InitTables /\ [][NextTables]_vars

\* Two orders of customers of every segment.
NextSegment ==
    \/ CallGenerateOrders({2})
    \/ GenerateOrder(SegmentDraws)
    \/ ReturnDataFrame

SpecSegment == InitPrice /\ [][NextSegment]_vars

\* The dashboard: script runs over one CSV file.  The dashboard's process
\* holds no generator.
StartScript(files) ==
    /\ products = <<>>
    /\ customers = <<>>
    /\ coupons = <<>>
    /\ pc = "off"
    /\ num_orders = 0
    /\ i = 0
    /\ orders = <<>>
    /\ customer_order_counts = <<>>
    /\ customer_last_order_time = <<>>
    /\ fraud_data = None
    /\ clock = Noon
    /\ result = None
    /\ call = None
    /\ ret = None
    /\ csv_file \in files
    /\ df = None
    /\ original_df = None
    /\ dpc = "start"
    /\ selection = None
    /\ messages = <<>>
    /\ views = <<>>

InitDashboard == StartScript(CsvFiles)

NextDashboard ==
    \/ LoadData
    \/ CreateFilters
    \/ RenderTabs(PageSizeDraws)
    \/ Rerun

SpecDashboard == InitDashboard /\ [][NextDashboard]_vars

\* The dashboard over the longer tables, with every page size and every
\* page number the data explorer offers.
InitLongTables == StartScript(LongCsvFiles)

NextLongTables ==
    \/ LoadData
    \/ CreateFilters
    \/ RenderTabs(PageSizes)
    \/ Rerun

SpecLongTables == InitLongTables /\ [][NextLongTables]_vars

\* Direct calls of the helper methods on a constructed generator.
NextCalls ==
    \/ CallCalculateDiscount(PriceArguments)
    \/ CallDetectFraudPatterns(ContextArguments)
    \/ CallGenerateOrderDate(GeneralDraws)

SpecCalls == Init /\ [][NextCalls]_vars

----------------------------------------------------------------------------
\* Properties

\* The order emitted by the latest iteration.
LastOrder == orders[Len(orders)]

\* The history of the latest order's customer as the iteration found it.
PriorHistory ==
    LET history == customer_order_counts[LastOrder.customer_id]
    IN  SubSeq(history, 1, Len(history) - 1)

\* The number of earlier timestamps t of the latest order's customer with
\* 0 <= current - t <= 1 hour.
PriorInHourBefore ==
    LET current == LastOrder.order_date
    IN  Cardinality({k \in 1..Len(PriorHistory) :
            /\ DtLE(PriorHistory[k], current)
            /\ \/ Seconds(current) - Seconds(PriorHistory[k]) < 3600
               \/ /\ Seconds(current) - Seconds(PriorHistory[k]) = 3600
                  /\ current.microsecond <= PriorHistory[k].microsecond})

IndicatorNames ==
    <<"High value new customer", "Multiple orders in short time",
      "High discount usage", "International express shipping">>

\* The indicator IndicatorNames[n] is one of those listed in the string text.
Fired(n, text) ==
    \E f \in [1..4 -> BOOLEAN] :
        /\ f[n]
        /\ text = Join(SelectSeq(IndicatorNames,
                                 LAMBDA name : \E k \in 1..4 :
                                     f[k] /\ IndicatorNames[k] = name))

\* C1: every emitted order has final_price = total_price - total_discount
\* in its 2-decimal fields.
C1_FinalPriceIdentity ==
    \A k \in 1..Len(orders) :
        orders[k].final_price = orders[k].total_price - orders[k].total_discount

\* C2: every emitted order has profit = final_price - base_cost in its
\* 2-decimal fields, base_cost being the product's base cost times the
\* quantity.
C2_ProfitIdentity ==
    \A k \in 1..Len(orders) :
        /\ orders[k].base_cost = products[orders[k].product_id].base_cost
                                     * orders[k].quantity
        /\ orders[k].profit = orders[k].final_price - orders[k].base_cost

\* C3: every generated order has 0 <= total_discount <= total_price and so
\* final_price <= total_price, before and after rounding to 2 decimals.
C3_DiscountWithinPrice ==
    /\ \A k \in 1..Len(orders) :
          /\ 0 <= orders[k].total_discount
          /\ orders[k].total_discount <= orders[k].total_price
          /\ orders[k].final_price <= orders[k].total_price
    /\ Len(orders) > 0 =>
          /\ 0 <= fraud_data.total_discount
          /\ fraud_data.total_discount <= fraud_data.total_price

\* C3 witness: an order to which the largest percentage, FLASH30, applied.
C3_Witness ==
    /\ Len(orders) > 0
    /\ LastOrder.coupon_code = "FLASH30"
    /\ LastOrder.total_discount > 0
    /\ LastOrder.final_price < LastOrder.total_price

\* C4: an emitted order is high risk exactly when one of the four fraud rules
\* held of its context, and exactly when its fraud_indicators text is
\* neither empty nor the sentinel.
C4_HighRiskIffRuleFired ==
    Len(orders) > 0 =>
        /\ LastOrder.is_high_risk <=>
              \/ fraud_data.customer_segment = "New"
                    /\ fraud_data.total_price > 500 * 10000
              \/ fraud_data.orders_in_last_hour > 3
              \/ fraud_data.coupon_code # NoneStr
                    /\ 2 * fraud_data.total_discount > fraud_data.total_price
              \/ fraud_data.shipping_country # "USA"
                    /\ fraud_data.shipping_method = "Express"
        /\ \A k \in 1..Len(orders) :
              orders[k].is_high_risk <=>
                  /\ orders[k].fraud_indicators # ""
                  /\ orders[k].fraud_indicators # "No indicators"

\* C4 witness: a run that has emitted an order no rule fired for and later a
\* high-risk order of the same customer.
C4_Witness ==
    /\ Len(orders) > 1
    /\ ~ orders[1].is_high_risk
    /\ orders[1].fraud_indicators = "No indicators"
    /\ LastOrder.is_high_risk
    /\ LastOrder.fraud_indicators = "Multiple orders in short time"

\* C5: _calculate_discount returns 0 without a coupon or below min_order,
\* min(15, 0.1 * total_price) for a free-shipping coupon, and
\* total_price * discount_percent / 100 otherwise; SAVE15 on 100 gives 15,
\* leaving 85, and FREESHIP on 200 gives 15.
C5_DiscountRule ==
    /\ (call # None /\ call.method = "_calculate_discount") =>
          LET price == call.total_price
              c == call.coupon
              tenth == price \div 10
          IN  ret = IF c = None \/ price < c.min_order THEN 0
                    ELSE IF "free_shipping" \in DOMAIN c /\ c.free_shipping
                         THEN IF tenth < 150000 THEN tenth ELSE 150000
                         ELSE (price * c.discount_percent) \div 100
    /\ CalculateDiscount(100 * 10000, GenerateCouponList[2]) = 15 * 10000
    /\ 100 * 10000 - CalculateDiscount(100 * 10000, GenerateCouponList[2]) = 85 * 10000
    /\ CalculateDiscount(200 * 10000, GenerateCouponList[5]) = 15 * 10000

\* C5 witness: the call with SAVE15 and an order total of 100 returned 15.
C5_Witness ==
    /\ call # None
    /\ call.method = "_calculate_discount"
    /\ call.coupon # None
    /\ call.coupon.code = "SAVE15"
    /\ call.total_price = 100 * 10000
    /\ ret = 15 * 10000

\* C6: orders_in_last_hour of an order is the number of earlier timestamps t
\* of the same customer with 0 <= current - t <= 1 hour, and is 0 for the
\* customer's first order.
C6_OrdersInLastHour ==
    Len(orders) > 0 =>
        /\ fraud_data.orders_in_last_hour = PriorInHourBefore
        /\ Len(PriorHistory) = 0 => fraud_data.orders_in_last_hour = 0

\* C7: with exactly 3 earlier orders of the customer in the hour before the
\* order, orders_in_last_hour is 3 and 'Multiple orders in short time' does
\* not fire; with exactly 4 it fires; it fires exactly when
\* orders_in_last_hour > 3.
C7_BurstBoundary ==
    Len(orders) > 0 =>
        /\ PriorInHourBefore = 3 =>
              /\ fraud_data.orders_in_last_hour = 3
              /\ ~ Fired(2, LastOrder.fraud_indicators)
        /\ PriorInHourBefore = 4 => Fired(2, LastOrder.fraud_indicators)
        /\ Fired(2, LastOrder.fraud_indicators)
              <=> fraud_data.orders_in_last_hour > 3

\* C8: 'High value new customer' is listed exactly when the segment is New
\* and total_price > 500: not at 500, at 500.01, and for no other segment.
C8_HighValueNewCustomer ==
    (call # None /\ call.method = "_detect_fraud_patterns") =>
        LET d == call.order_data
        IN  /\ Fired(1, ret) <=>
                  (d.customer_segment = "New" /\ d.total_price > 500 * 10000)
            /\ d.total_price = 500 * 10000 => ~ Fired(1, ret)
            /\ d.customer_segment # "New" => ~ Fired(1, ret)
            /\ (d.customer_segment = "New" /\ d.total_price = 500 * 10000 + 100)
                  => Fired(1, ret)

\* C8 witness: a New customer's order of 500.01 with no other rule firing
\* returned the one indicator.
C8_Witness ==
    /\ call # None
    /\ call.method = "_detect_fraud_patterns"
    /\ call.order_data.customer_segment = "New"
    /\ call.order_data.total_price = 500 * 10000 + 100
    /\ ret = "High value new customer"

\* C9 as stated: with an empty catalog, customer list or coupon set,
\* generate_orders never returns and yields no orders, whatever num_orders.
C9_AnyEmptyTableAborts ==
    (Len(products) = 0 \/ Len(customers) = 0 \/ Len(coupons) = 0) =>
        /\ pc # "done"
        /\ result = None

\* C9 amended: with an empty catalog or customer list and num_orders >= 1 the
\* first iteration raises IndexError and nothing is returned; with
\* num_orders = 0 the empty table is returned; an empty coupon set alone
\* raises nothing, and every order is generated without a coupon.
C9_EmptyCatalogOrCustomersAbort ==
    /\ (Len(products) = 0 \/ Len(customers) = 0) =>
          /\ Len(orders) = 0
          /\ (pc = "loop" /\ num_orders >= 1) =>
                /\ ENABLED RaiseIndexError
                /\ ~ ENABLED ReturnDataFrame
                /\ ~ ENABLED GenerateOrder(TablesDraws)
          /\ pc = "done" => (num_orders = 0 /\ result = <<>>)
          /\ pc # "done" => result = None
    /\ pc = "IndexError" =>
          /\ Len(products) = 0 \/ Len(customers) = 0
          /\ num_orders >= 1
          /\ i = 0
          /\ result = None
    /\ (Len(coupons) = 0 /\ Len(products) > 0 /\ Len(customers) > 0) =>
          /\ ~ ENABLED RaiseIndexError
          /\ \A k \in 1..Len(orders) :
                orders[k].coupon_code = NoneStr /\ orders[k].total_discount = 0
          /\ pc = "done" => Len(result) = num_orders

\* C9 witness: generate_orders(2) on an empty catalog has raised IndexError.
C9_Witness ==
    /\ pc = "IndexError"
    /\ Len(products) = 0
    /\ Len(customers) > 0
    /\ num_orders = 2
    /\ result = None

\* C10: every date _generate_order_date returns lies in
\* [base_date - 365 days, base_date].
C10_OrderDateInWindow ==
    (call # None /\ call.method = "_generate_order_date") =>
        /\ DtLE(MinusDays(call.base_date, 365), ret)
        /\ DtLE(ret, call.base_date)

\* C16: the per-customer history is append-only.  Every step that emits an
\* order appends exactly the order's timestamp to the history of the order's
\* customer, after the count of the order was read from the history as it
\* was before; the histories of all other customers stay as they are, and no
\* step removes or rewrites an entry.
C16_HistoryAppendOnly ==
    [][ /\ \A c \in DOMAIN customer_order_counts :
              /\ c \in DOMAIN customer_order_counts'
              /\ Len(customer_order_counts'[c]) >= Len(customer_order_counts[c])
              /\ SubSeq(customer_order_counts'[c], 1, Len(customer_order_counts[c]))
                    = customer_order_counts[c]
        /\ Len(orders') = Len(orders) => customer_order_counts' = customer_order_counts
        /\ Len(orders') # Len(orders) =>
              LET order == orders'[Len(orders')]
                  c == order.customer_id
                  before == IF c \in DOMAIN customer_order_counts
                            THEN customer_order_counts[c] ELSE <<>>
              IN  /\ Len(orders') = Len(orders) + 1
                  /\ customer_order_counts'[c] = Append(before, order.order_date)
                  /\ DOMAIN customer_order_counts'
                        = DOMAIN customer_order_counts \cup {c}
                  /\ \A d \in DOMAIN customer_order_counts' \ {c} :
                        customer_order_counts'[d] = customer_order_counts[d]
                  /\ fraud_data'.orders_in_last_hour <= Len(before)
      ]_vars

\* C16 witness: both customers have a history, one of them of three orders.
C16_Witness ==
    /\ DOMAIN customer_order_counts = {1, 2}
    /\ Len(customer_order_counts[1]) = 3
    /\ Len(customer_order_counts[2]) = 2
    /\ Len(orders) = 5

\* The four rules of _detect_fraud_patterns, each stated of the context alone.
RuleHolds(n, d) ==
    CASE n = 1 -> d.customer_segment = "New" /\ d.total_price > 500 * 10000
      [] n = 2 -> d.orders_in_last_hour > 3
      [] n = 3 -> d.coupon_code # NoneStr /\ 2 * d.total_discount > d.total_price
      [] n = 4 -> d.shipping_country # "USA" /\ d.shipping_method = "Express"

\* C17: _detect_fraud_patterns returns the names of the rules that hold of
\* its argument, in the order High value new customer, Multiple orders in
\* short time, High discount usage, International express shipping, joined
\* by ', '; it returns 'No indicators' exactly when no rule holds; a rule is
\* listed exactly when it holds, whatever the other three do; and the call
\* changes nothing of the generator.
C17_FraudPatternsFixedOrder ==
    (call # None /\ call.method = "_detect_fraud_patterns") =>
        LET d == call.order_data
            held == {n \in 1..4 : RuleHolds(n, d)}
        IN  /\ ret = IF held = {} THEN "No indicators"
                     ELSE Join(SelectSeq(IndicatorNames,
                                   LAMBDA name : \E n \in held :
                                       IndicatorNames[n] = name))
            /\ ret = "No indicators" <=> held = {}
            /\ \A n \in 1..4 : Fired(n, ret) <=> RuleHolds(n, d)
            /\ pc = "idle" /\ orders = <<>> /\ fraud_data = None
            /\ customer_order_counts = <<>> /\ customer_last_order_time = <<>>

\* C17 witness: a call in which all four rules held.
C17_Witness ==
    /\ call # None
    /\ call.method = "_detect_fraud_patterns"
    /\ ret = "High value new customer, Multiple orders in short time, "
             \o "High discount usage, International express shipping"

\* C19: two emitted orders of the same product, quantity and coupon carry the
\* same unit_price, total_price, total_discount, final_price, base_cost and
\* profit, whatever the segments of their customers.
C19_SegmentNotInPricing ==
    \A j, k \in 1..Len(orders) :
        (/\ orders[j].product_id = orders[k].product_id
         /\ orders[j].quantity = orders[k].quantity
         /\ orders[j].coupon_code = orders[k].coupon_code)
        => /\ orders[j].unit_price = orders[k].unit_price
           /\ orders[j].total_price = orders[k].total_price
           /\ orders[j].total_discount = orders[k].total_discount
           /\ orders[j].final_price = orders[k].final_price
           /\ orders[j].base_cost = orders[k].base_cost
           /\ orders[j].profit = orders[k].profit

\* C19 witness: a New and a VIP customer ordered the same product in the
\* same quantity with the same coupon, and only the New customer's order is
\* high risk.
C19_Witness ==
    /\ Len(orders) = 2
    /\ orders[1].customer_segment = "New"
    /\ orders[2].customer_segment = "VIP"
    /\ orders[1].product_id = orders[2].product_id
    /\ orders[1].quantity = orders[2].quantity
    /\ orders[1].coupon_code = "VIP25"
    /\ orders[2].coupon_code = "VIP25"
    /\ orders[1].total_discount > 0
    /\ orders[1].is_high_risk
    /\ ~ orders[2].is_high_risk

\* The slots of the pool that hold a coupon.
CouponSlots == {k \in 1..Len(CouponPool(coupons)) : CouponPool(coupons)[k] # None}

----------------------------------------------------------------------------
\* Properties of the dashboard

\* The names of the tabs.
Tabs ==
    {"Business Overview", "Profit Analysis", "Product Performance",
     "Fraud Detection", "Data Explorer"}

\* The rows of the CSV file with order_date parsed.
FileRows == ParseOrderDate(csv_file.frame).rows

\* A filter cycle has run to its end with the widget values `selection`.
Filtered == dpc \in {"filtered", "done"} /\ selection # None

\* Every widget is at its unrestricted value: the full date range, the three
\* 'All ...' entries, the full price range and 'All Orders'.
Unrestricted ==
    /\ selection.date_range = FullDateRange(FileRows)
    /\ selection.category = "All Categories"
    /\ selection.segment = "All Segments"
    /\ selection.status = "All Statuses"
    /\ selection.price_range = << MinCol(FileRows, "total_price"),
                                  MaxCol(FileRows, "total_price") >>
    /\ selection.fraud_filter \in {"All Orders", NoneStr}
    /\ ~ selection.reset

\* The messages of kind "error" shown in this run.
Errors == SelectSeq(messages, LAMBDA m : m.kind = "error")

\* C11: create_filters with every filter unrestricted leaves exactly the
\* rows of the loaded table, in their order; a table without rows stays
\* without rows.
C11_UnrestrictedKeepsAllRows ==
    /\ (Filtered /\ Unrestricted) => df.rows = FileRows
    /\ (dpc = "done" /\ csv_file # None /\ Len(csv_file.frame.rows) = 0) =>
          df.rows = <<>>

\* C12: a filter cycle that leaves zero rows ends without an error message,
\* and the five views are rendered, none of them raising.
C12_ZeroRowsNoError ==
    (dpc = "done" /\ Filtered /\ Len(df.rows) = 0) =>
        /\ Len(Errors) = 0
        /\ Tabs \subseteq DOMAIN views
        /\ \A tab \in Tabs : views[tab].raised = NoneStr

\* The names under which the views show a rate over a sum of total_price,
\* and those under which they show one such rate per group.
RateNames ==
    {"Average Discount Rate", "Overall Profit Margin", "Average Profit Margin",
     "Revenue at Risk"}

GroupRateNames ==
    {"Customer Margin", "Product Profit Margin", "Category Profit Margin"}

\* C13: no rate a view shows is nan or infinite: a rate whose denominator is
\* zero is shown as zero.
C13_RatesDefined ==
    \A tab \in Tabs \cap DOMAIN views :
        \A k \in 1..Len(views[tab].shown) :
            LET name == views[tab].shown[k][1]
                value == views[tab].shown[k][2]
            IN  /\ name \in RateNames => value \notin {NaN, Inf}
                /\ name \in GroupRateNames =>
                      \A g \in DOMAIN value : value[g] \notin {NaN, Inf}

\* C14: when the file lacks a required column, load_data ends with an error
\* message that names the column, and the run computes no filter and no
\* view from the table.
C14_MissingColumnFatal ==
    (csv_file # None /\ dpc # "start") =>
        \A column \in RequiredColumns \ csv_file.frame.columns :
            /\ \E k \in 1..Len(messages) :
                  messages[k] = Message("error", "Error loading data: "
                                                     \o KeyError(column))
            /\ selection = None
            /\ DOMAIN views \cap Tabs = {}

\* The file has every column but is_high_risk.
RiskColumnAbsent ==
    /\ csv_file # None
    /\ csv_file.frame.columns = AllColumns \ {"is_high_risk"}

\* C15: on a table without the column is_high_risk the risk filter is not
\* offered and drops no row; every cycle that leaves rows renders all five
\* views without an exception and without an error message, the fraud view
\* saying that the feature needs the column; and no message of any run
\* names the column as missing.
C15_RiskColumnOptional ==
    RiskColumnAbsent =>
        /\ Filtered =>
              /\ selection.fraud_filter = NoneStr
              /\ ~ selection.reset =>
                    df.rows = ByPriceRange(
                        SelectSeq(ByDateRange(FileRows, selection.date_range),
                            LAMBDA r :
                                /\ selection.category \in {"All Categories", r.category}
                                /\ selection.segment \in {"All Segments", r.customer_segment}
                                /\ selection.status \in {"All Statuses", r.order_status}),
                        selection.price_range)
        /\ (dpc = "done" /\ Filtered /\ Len(df.rows) > 0) =>
              /\ Tabs \subseteq DOMAIN views
              /\ \A tab \in Tabs : views[tab].raised = NoneStr
              /\ views["Fraud Detection"].shown =
                    << <<"info", "Fraud detection features require 'is_high_risk' column in the dataset">> >>
              /\ Len(Errors) = 0
        /\ \A k \in 1..Len(messages) :
              /\ messages[k].text # "Error loading data: " \o KeyError("is_high_risk")
              /\ messages[k].text # "An error occurred while running the dashboard: "
                                        \o KeyError("is_high_risk")

\* C15 witness: a cycle on such a table that narrowed it to the two orders of
\* one day and rendered the five views.
C15_Witness ==
    /\ RiskColumnAbsent
    /\ dpc = "done"
    /\ Filtered
    /\ Len(df.rows) = 2
    /\ Tabs \subseteq DOMAIN views
    /\ views["Data Explorer"].raised = NoneStr

\* C18: a filter cycle leaves the original table as it was loaded and gives
\* the rows of the full original table that pass the widgets' tests, whatever
\* earlier cycles gave; with unrestricted widgets it gives back all rows.
C18_FilterFromOriginal ==
    Filtered =>
        /\ original_df = csv_file.frame
        /\ \A k \in 1..Len(df.rows) :
              \E j \in 1..Len(FileRows) : df.rows[k] = FileRows[j]
        /\ ~ selection.reset =>
              \A j \in 1..Len(FileRows) :
                  (\E k \in 1..Len(df.rows) : df.rows[k] = FileRows[j])
                  <=> (/\ Len(selection.date_range) = 2 =>
                            /\ FileRows[j].order_date.day >= selection.date_range[1]
                            /\ FileRows[j].order_date.day <= selection.date_range[2]
                       /\ selection.category \in {"All Categories", FileRows[j].category}
                       /\ selection.segment \in {"All Segments", FileRows[j].customer_segment}
                       /\ selection.status \in {"All Statuses", FileRows[j].order_status}
                       /\ Len(selection.price_range) = 2
                       /\ "total_price" \notin FileRows[j].nulls
                       /\ FileRows[j].total_price >= selection.price_range[1]
                       /\ FileRows[j].total_price <= selection.price_range[2]
                       /\ selection.fraud_filter = "High Risk Only"
                             => FileRows[j].is_high_risk
                       /\ selection.fraud_filter = "Low Risk Only"
                             => ~ FileRows[j].is_high_risk)
        /\ (Unrestricted \/ selection.reset) => df.rows = FileRows

----------------------------------------------------------------------------
\* Properties of whole runs of generate_orders

\* C21: no step of generate_orders changes self.products, self.customers or
\* self.coupons: they stay the tables the constructor built.
C21_TablesNeverMutated ==
    [][/\ products' = products
       /\ customers' = customers
       /\ coupons' = coupons]_vars

\* C21 witness: a call has returned two orders, and the tables are the two
\* products, two customers and six coupons of the constructor.
C21_Witness ==
    /\ pc = "done"
    /\ Len(result) = 2
    /\ products = GenerateProductCatalog(SubSeq(ProductDraws, 1, 2))
    /\ customers = GenerateCustomerList(SubSeq(CustomerDraws, 1, 2))
    /\ coupons = GenerateCouponList

\* C22: with two products and two customers, every call generate_orders(n)
\* returns, and returns exactly n orders: each iteration appends one order
\* to those of the iterations before it, and the table returned is that list.
C22_TerminatesWithNOrders ==
    /\ [](pc = "loop" => Len(orders) = i /\ i <= num_orders)
    /\ [](pc = "done" => result = orders /\ Len(result) = num_orders)
    /\ [][(pc = "loop" /\ pc' = "loop") =>
             /\ i' = i + 1
             /\ Len(orders') = Len(orders) + 1
             /\ SubSeq(orders', 1, Len(orders)) = orders]_vars
    /\ (pc = "loop") ~> (pc = "done")

\* C22 witness: generate_orders(2) has returned, and its second order was
\* generated at a later reading of the clock than its first.
C22_Witness ==
    /\ pc = "done"
    /\ num_orders = 2
    /\ Len(result) = 2
    /\ clock = LateEvening

\* C23: with the coupon table of the constructor no order carries the
\* indicator 'High discount usage': the discount of an order, before and
\* after rounding, is at most half of its total price.
C23_HighDiscountNeverFires ==
    /\ \A k \in 1..Len(orders) :
          /\ ~ Fired(3, orders[k].fraud_indicators)
          /\ 2 * orders[k].total_discount <= orders[k].total_price
    /\ fraud_data # None =>
          2 * fraud_data.total_discount <= fraud_data.total_price

\* C23 witness: an order on which FLASH30, the largest percentage of the
\* table, was applied, and which is high risk for another reason.
C23_Witness ==
    /\ pc = "done"
    /\ Len(orders) = 1
    /\ orders[1].coupon_code = "FLASH30"
    /\ 10 * fraud_data.total_discount = 3 * fraud_data.total_price
    /\ orders[1].is_high_risk

\* The orders emitted so far for the customer with the given id.
OrdersOf(customer_id) ==
    SelectSeq(orders, LAMBDA order : order.customer_id = customer_id)

\* C24: at every point of a call, the history list of every customer holds
\* the timestamps of the orders emitted for that customer, one per order and
\* in the order of emission; both dicts have a key for exactly the customers
\* with an order; and customer_last_order_time holds the timestamp appended
\* last.
C24_HistoryMatchesOrders ==
    /\ DOMAIN customer_order_counts \subseteq 1..Len(customers)
    /\ DOMAIN customer_last_order_time = DOMAIN customer_order_counts
    /\ \A customer_id \in 1..Len(customers) :
          LET history == Get(customer_order_counts, customer_id, <<>>)
              emitted == OrdersOf(customer_id)
          IN  /\ Len(history) = Len(emitted)
              /\ \A k \in 1..Len(history) : history[k] = emitted[k].order_date
              /\ customer_id \in DOMAIN customer_last_order_time
                    <=> Len(history) > 0
              /\ Len(history) > 0 =>
                    customer_last_order_time[customer_id] = history[Len(history)]

\* C24 witness: customer 1 has three orders and customer 2 none, and the
\* timestamp kept for customer 1 is earlier than one before it in the
\* history.
C24_Witness ==
    /\ Len(OrdersOf(1)) = 3
    /\ 2 \notin DOMAIN customer_last_order_time
    /\ customer_last_order_time[1] = customer_order_counts[1][3]
    /\ ~ DtLE(customer_order_counts[1][2], customer_last_order_time[1])

\* C25: every order emitted with total_discount = 0 has a profit above zero;
\* an order with profit <= 0 carries a coupon whose discount was applied.
C25_ProfitPositiveWithoutDiscount ==
    \A k \in 1..Len(orders) :
        /\ orders[k].total_discount = 0 => orders[k].profit > 0
        /\ orders[k].profit <= 0 =>
              /\ orders[k].coupon_code # NoneStr
              /\ orders[k].total_discount > 0

\* C25 witness: one unit of the product with the smallest markup (cost
\* 10.00, price 12.00), with the coupon FLASH30 drawn but not applied since
\* the order is under its minimum: the profit is 2.00.
C25_Witness ==
    /\ pc = "done"
    /\ Len(orders) = 1
    /\ orders[1].coupon_code = "FLASH30"
    /\ orders[1].total_discount = 0
    /\ orders[1].total_price = 12 * 10000
    /\ orders[1].profit = 2 * 10000

----------------------------------------------------------------------------
\* Properties of the data explorer and of the product metrics

\* The data explorer has shown a page of the filtered table.
ExplorerShown ==
    /\ dpc = "done"
    /\ "Data Explorer" \in DOMAIN views
    /\ views["Data Explorer"].raised = NoneStr
    /\ Len(df.rows) > 0

\* C26: for the table the data explorer shows and every page size, every row
\* is on one of the pages 1..total_pages, and no row is on two of them; the
\* page shown is one of these pages.
C26_PagesCoverAllRows ==
    ExplorerShown =>
        LET length == Len(df.rows)
        IN  /\ \A page_size \in PageSizes :
                  /\ \A k \in 1..length :
                        \E page_number \in 1..TotalPages(length, page_size) :
                            k \in PageRows(length, page_size, page_number)
                  /\ \A p, q \in 1..TotalPages(length, page_size) :
                        p # q => PageRows(length, page_size, p)
                                     \cap PageRows(length, page_size, q) = {}
            /\ \E page_size \in PageSizes :
                  \E page_number \in 1..TotalPages(length, page_size) :
                      views["Data Explorer"].shown[3] =
                          <<"Rows Shown", PageRows(length, page_size, page_number)>>

\* The tabs that show the metric 'Unique Products' in this run.
ProductMetricTabs ==
    {tab \in {"Business Overview", "Product Performance"} \cap DOMAIN views :
        \E k \in 1..Len(views[tab].shown) :
            views[tab].shown[k][1] = "Unique Products"}

\* C27: the metric 'Unique Products' of the overview and of the product
\* performance view is the number of distinct products among the rows of
\* the filtered table.
C27_UniqueProductsCountsProducts ==
    dpc = "done" =>
        \A tab \in ProductMetricTabs :
            \A k \in 1..Len(views[tab].shown) :
                views[tab].shown[k][1] = "Unique Products" =>
                    views[tab].shown[k][2] =
                        Cardinality(Unique(df.rows, "product_name"))

====
